---- MODULE Spec2Model ----
(***************************************************************************)
(* Interrupt controller simulation (src/Interrupt_Controller_Simulation.cpp)*)
(*                                                                         *)
(* Threads: three device threads (device_thread), the controller           *)
(* (controller_thread), the console thread (user_input_thread) and main.   *)
(* Shared state: pending, the three mask flags, running, global_seq, the   *)
(* mutex mtx and the condition variable cv (its only waiter is the         *)
(* controller, so the waiting/notified status lives in the controller's    *)
(* position cpc).                                                          *)
(*                                                                         *)
(* The mask flags are plain bools written by the console thread without    *)
(* mtx and read by the controller inside its scan: every read of a mask    *)
(* and every write of one is therefore a step of its own.  running is an   *)
(* atomic<bool> written without mtx as well.                               *)
(***************************************************************************)
EXTENDS Integers, Sequences, FiniteSets, TLC

\* enum Device { PRINTER = 1, MOUSE = 2, KEYBOARD = 3 }
PRINTER == 1
MOUSE == 2
KEYBOARD == 3
Device == {PRINTER, MOUSE, KEYBOARD}

\* LLONG_MAX, the initial best_seq (line 121), cut to 32 bits; it is never compared:
\* line 129 tests best_idx == -1 first
LLONG_MAX == 2147483647

\* Most events the device threads insert in one run.
MaxSeq == 2

VARIABLES
    pending,          \* vector<InterruptEvent>: sequence of [dev, seq]
    masked_keyboard,  \* bool
    masked_mouse,     \* bool
    masked_printer,   \* bool
    running,          \* atomic<bool>
    global_seq,       \* long long
    mtx,              \* "free" or the thread that holds it
    cpc,              \* controller_thread: position
    i,                \* controller_thread: scan index (0-based), -1 outside the scan
    best,             \* controller_thread: [idx, dev, seq] = best_idx, best_dev, best_seq
    ev,               \* controller_thread: the extracted event, NoEvent outside service
    dpc,              \* device_thread: position, per device
    upc,              \* user_input_thread: position
    mpc,              \* main: position
    inserted,         \* history: every event pushed, in push order
    serviced,         \* history: every event erased for service, in erase order
    log,              \* isr_log.txt: sequence of [phase, dev, seq]
    stop_len          \* history: Len(serviced) when running became false, -1 before

vars == <<pending, masked_keyboard, masked_mouse, masked_printer, running,
          global_seq, mtx, cpc, i, best, ev, dpc, upc, mpc, inserted,
          serviced, log, stop_len>>

masks == <<masked_keyboard, masked_mouse, masked_printer>>
ctrlLocals == <<i, best, ev>>
history == <<inserted, serviced, log>>

NoEvent == [dev |-> 0, seq |-> 0]
NoBest == [idx |-> -1, dev |-> PRINTER, seq |-> LLONG_MAX]

\* lines 124-126 / 142-144: the mask of the event's device, as read now
is_masked(d) ==
    \/ (d = KEYBOARD /\ masked_keyboard)
    \/ (d = MOUSE /\ masked_mouse)
    \/ (d = PRINTER /\ masked_printer)

\* Better with the device comparison turned round
BetterLowFirst(b, e) ==
    \/ b.idx = -1
    \/ e.dev < b.dev
    \/ (e.dev = b.dev /\ e.seq < b.seq)

\* line 129: the test that makes pending[i] the new best
Better(b, e) ==
    \/ b.idx = -1
    \/ e.dev > b.dev
    \/ (e.dev = b.dev /\ e.seq < b.seq)

\* lines 123-133: one iteration of the scan, on event e at index k
ScanUpdate(b, k, e, m) ==
    IF m THEN b
    ELSE IF Better(b, e) THEN [idx |-> k, dev |-> e.dev, seq |-> e.seq]
    ELSE b

\* Erase one place too far: pending.erase(pending.begin() + idx + 1)
EraseOffByOne(s, idx) ==
    SubSeq(s, 1, idx + 1) \o SubSeq(s, idx + 3, Len(s))

\* line 156: pending.erase(pending.begin() + idx), idx 0-based
Erase(s, idx) ==
    SubSeq(s, 1, idx) \o SubSeq(s, idx + 2, Len(s))

\* cv.notify_one / cv.notify_all: the controller is the only waiter
Notified(pc) ==
    IF pc = "waiting" THEN "notified"
    ELSE IF pc = "timed_wait" THEN "tw_wake"
    ELSE pc

Init ==
    /\ pending = <<>>
    /\ masked_keyboard = FALSE
    /\ masked_mouse = FALSE
    /\ masked_printer = FALSE
    /\ running = TRUE
    /\ global_seq = 0
    /\ mtx = "free"
    /\ cpc = "loop"
    /\ i = -1
    /\ best = NoBest
    /\ ev = NoEvent
    /\ dpc = [d \in Device |-> "sleep"]
    /\ upc = "getline"
    /\ mpc = "join_user"
    /\ inserted = <<>>
    /\ serviced = <<>>
    /\ log = <<>>
    /\ stop_len = -1

----------------------------------------------------------------------------
\* device_thread(dev, min_ms, max_ms)

\* events pushed or about to be pushed (past the check of line 100)
Committed == global_seq + Cardinality({d \in Device : dpc[d] = "push"})

\* lines 97-100: while (running), sleep_for, if (!running) break.  running only
\* goes from true to false, so the thread goes on to push exactly when the read
\* of line 100 gives true: that read is the step.  A thread at its sleep stays
\* there once MaxSeq events are committed.
DevWake(d) ==
    /\ dpc[d] = "sleep"
    /\ running => Committed < MaxSeq
    /\ dpc' = [dpc EXCEPT ![d] = IF running THEN "push" ELSE "done"]
    /\ UNCHANGED <<pending, masks, running, global_seq, mtx, cpc, ctrlLocals,
                   upc, mpc, history, stop_len>>

\* DevPush without the lock_guard: the push does not wait for mtx
DevPushNoLock(d) ==
    /\ dpc[d] = "push"
    /\ global_seq' = global_seq + 1
    /\ pending' = Append(pending, [dev |-> d, seq |-> global_seq + 1])
    /\ inserted' = Append(inserted, [dev |-> d, seq |-> global_seq + 1])
    /\ dpc' = [dpc EXCEPT ![d] = "notify"]
    /\ UNCHANGED <<masks, running, mtx, cpc, ctrlLocals, upc, mpc, serviced, log,
                   stop_len>>

\* lines 103-106: lock_guard, pending.push_back({dev, ++global_seq, now}): the
\* critical section, taken and left in one step, so only while mtx is free
DevPush(d) ==
    /\ dpc[d] = "push"
    /\ mtx = "free"
    /\ global_seq' = global_seq + 1
    /\ pending' = Append(pending, [dev |-> d, seq |-> global_seq + 1])
    /\ inserted' = Append(inserted, [dev |-> d, seq |-> global_seq + 1])
    /\ dpc' = [dpc EXCEPT ![d] = "notify"]
    /\ UNCHANGED <<masks, running, mtx, cpc, ctrlLocals, upc, mpc, serviced, log,
                   stop_len>>

\* DevNotify without the call of cv.notify_one()
DevNotifyNone(d) ==
    /\ dpc[d] = "notify"
    /\ dpc' = [dpc EXCEPT ![d] = "sleep"]
    /\ UNCHANGED <<pending, masks, running, global_seq, mtx, cpc, ctrlLocals,
                   upc, mpc, history, stop_len>>

\* line 107: cv.notify_one()
DevNotify(d) ==
    /\ dpc[d] = "notify"
    /\ cpc' = Notified(cpc)
    /\ dpc' = [dpc EXCEPT ![d] = "sleep"]
    /\ UNCHANGED <<pending, masks, running, global_seq, mtx, ctrlLocals,
                   upc, mpc, history, stop_len>>

----------------------------------------------------------------------------
\* controller_thread()

\* CtrlLoop as while (true): the flag is not read
CtrlLoopForever ==
    /\ cpc = "loop"
    /\ cpc' = "lock"
    /\ UNCHANGED <<pending, masks, running, global_seq, mtx, ctrlLocals, dpc,
                   upc, mpc, history, stop_len>>

\* line 113: while (running)
CtrlLoop ==
    /\ cpc = "loop"
    /\ cpc' = IF running THEN "lock" ELSE "done"
    /\ UNCHANGED <<pending, masks, running, global_seq, mtx, ctrlLocals, dpc,
                   upc, mpc, history, stop_len>>

\* line 114: unique_lock<mutex> ul(mtx)
CtrlLock ==
    /\ cpc = "lock"
    /\ mtx = "free"
    /\ mtx' = "ctrl"
    /\ cpc' = "wait_pred"
    /\ UNCHANGED <<pending, masks, running, global_seq, ctrlLocals, dpc, upc,
                   mpc, history, stop_len>>

\* WaitPred with the flag read the wrong way round: || running
WaitPredSlip == pending # <<>> \/ running

\* line 115: the predicate of cv.wait, evaluated with mtx held
WaitPred == pending # <<>> \/ ~running

\* line 115: cv.wait(ul, pred) is  while (!pred()) wait(ul)
CtrlWaitPred ==
    /\ cpc = "wait_pred"
    /\ cpc' = IF WaitPred THEN "check_exit" ELSE "wait_block"
    /\ UNCHANGED <<pending, masks, running, global_seq, mtx, ctrlLocals, dpc,
                   upc, mpc, history, stop_len>>

\* line 115: wait(ul) releases mtx and blocks, atomically
CtrlBlock ==
    /\ cpc = "wait_block"
    /\ mtx' = "free"
    /\ cpc' = "waiting"
    /\ UNCHANGED <<pending, masks, running, global_seq, ctrlLocals, dpc, upc,
                   mpc, history, stop_len>>

\* lines 115, 150: a wait may return without any notification
CtrlSpurious ==
    /\ cpc \in {"waiting", "timed_wait"}
    /\ cpc' = IF cpc = "waiting" THEN "notified" ELSE "tw_wake"
    /\ UNCHANGED <<pending, masks, running, global_seq, mtx, ctrlLocals, dpc,
                   upc, mpc, history, stop_len>>

\* line 115: the woken wait(ul) takes mtx again, then the predicate is re-read
CtrlReacquire ==
    /\ cpc = "notified"
    /\ mtx = "free"
    /\ mtx' = "ctrl"
    /\ cpc' = "wait_pred"
    /\ UNCHANGED <<pending, masks, running, global_seq, ctrlLocals, dpc, upc,
                   mpc, history, stop_len>>

\* line 116: if (!running && pending.empty()) break;  else lines 119-122
CtrlCheckExit ==
    /\ cpc = "check_exit"
    /\ IF ~running /\ pending = <<>>
       THEN /\ cpc' = "done"
            /\ mtx' = "free"
            /\ UNCHANGED ctrlLocals
       ELSE /\ cpc' = "scan"
            /\ i' = 0
            /\ best' = NoBest
            /\ UNCHANGED <<mtx, ev>>
    /\ UNCHANGED <<pending, masks, running, global_seq, dpc, upc, mpc, history, stop_len>>

\* lines 122-134: one iteration of the scan
CtrlScan ==
    /\ cpc = "scan"
    /\ i < Len(pending)
    /\ best' = ScanUpdate(best, i, pending[i + 1], is_masked(pending[i + 1].dev))
    /\ i' = i + 1
    /\ UNCHANGED <<pending, masks, running, global_seq, mtx, cpc, ev, dpc, upc,
                   mpc, history, stop_len>>

\* lines 136-150: nothing eligible; cv.wait_for releases mtx and blocks
CtrlAllMasked ==
    /\ cpc = "scan"
    /\ i = Len(pending)
    /\ best.idx = -1
    /\ mtx' = "free"
    /\ cpc' = "timed_wait"
    /\ i' = -1
    /\ best' = NoBest
    /\ UNCHANGED <<pending, masks, running, global_seq, ev, dpc, upc, mpc, history, stop_len>>

\* CtrlTimeout with wait in place of wait_for: no timeout ever
CtrlNoTimeout ==
    /\ cpc = "timed_wait"
    /\ FALSE
    /\ UNCHANGED vars

\* line 150: the 200 ms of cv.wait_for elapse
CtrlTimeout ==
    /\ cpc = "timed_wait"
    /\ cpc' = "tw_wake"
    /\ UNCHANGED <<pending, masks, running, global_seq, mtx, ctrlLocals, dpc,
                   upc, mpc, history, stop_len>>

\* lines 150-151: wait_for takes mtx again; continue drops it
CtrlContinue ==
    /\ cpc = "tw_wake"
    /\ mtx = "free"
    /\ cpc' = "loop"
    /\ UNCHANGED <<pending, masks, running, global_seq, mtx, ctrlLocals, dpc,
                   upc, mpc, history, stop_len>>

\* CtrlExtract without ul.unlock(): mtx stays held through the service
CtrlExtractKeepLock ==
    /\ cpc = "scan"
    /\ i = Len(pending)
    /\ best.idx # -1
    /\ ev' = pending[best.idx + 1]
    /\ pending' = Erase(pending, best.idx)
    /\ serviced' = Append(serviced, pending[best.idx + 1])
    /\ cpc' = "isr_start"
    /\ i' = -1
    /\ best' = NoBest
    /\ UNCHANGED <<masks, running, global_seq, mtx, dpc, upc, mpc, inserted, log,
                   stop_len>>

\* lines 155-157: ev = pending[best_idx]; pending.erase(...); ul.unlock()
CtrlExtract ==
    /\ cpc = "scan"
    /\ i = Len(pending)
    /\ best.idx # -1
    /\ ev' = pending[best.idx + 1]
    /\ pending' = Erase(pending, best.idx)
    /\ serviced' = Append(serviced, pending[best.idx + 1])
    /\ mtx' = "free"
    /\ cpc' = "isr_start"
    /\ i' = -1
    /\ best' = NoBest
    /\ UNCHANGED <<masks, running, global_seq, dpc, upc, mpc, inserted, log,
                   stop_len>>

\* IsrStart with the work handed off: the loop goes on before the END record
IsrStartDetached ==
    /\ cpc = "isr_start"
    /\ log' = Append(log, [phase |-> "START", dev |-> ev.dev, seq |-> ev.seq])
    /\ cpc' = "loop"
    /\ UNCHANGED <<pending, masks, running, global_seq, mtx, ctrlLocals, dpc,
                   upc, mpc, inserted, serviced, stop_len>>

\* lines 160-171: the START record
IsrStart ==
    /\ cpc = "isr_start"
    /\ log' = Append(log, [phase |-> "START", dev |-> ev.dev, seq |-> ev.seq])
    /\ cpc' = "isr_work"
    /\ UNCHANGED <<pending, masks, running, global_seq, mtx, ctrlLocals, dpc,
                   upc, mpc, inserted, serviced, stop_len>>

\* lines 174-189: the simulated work, the END record, the next iteration
IsrEnd ==
    /\ cpc = "isr_work"
    /\ log' = Append(log, [phase |-> "END", dev |-> ev.dev, seq |-> ev.seq])
    /\ cpc' = "loop"
    /\ ev' = NoEvent
    /\ UNCHANGED <<pending, masks, running, global_seq, mtx, i, best, dpc, upc,
                   mpc, inserted, serviced, stop_len>>

----------------------------------------------------------------------------
\* user_input_thread()

\* the device letters of the mask and unmask commands, "x" any other word
Which == {"k", "m", "p", "x"}

\* SetMask with the "m" branch copied from the "k" branch, flag not renamed
SetMaskCopied(which, b) ==
    /\ masked_keyboard' = IF which \in {"k", "m"} THEN b ELSE masked_keyboard
    /\ masked_mouse' = masked_mouse
    /\ masked_printer' = IF which = "p" THEN b ELSE masked_printer

\* lines 202-204 / 209-211: the flag the command writes
SetMask(which, b) ==
    /\ masked_keyboard' = IF which = "k" THEN b ELSE masked_keyboard
    /\ masked_mouse' = IF which = "m" THEN b ELSE masked_mouse
    /\ masked_printer' = IF which = "p" THEN b ELSE masked_printer

\* lines 200-206: mask k|m|p, then cv.notify_one()
UserMask(which) ==
    /\ upc = "getline"
    /\ SetMask(which, TRUE)
    /\ cpc' = Notified(cpc)
    /\ UNCHANGED <<pending, running, global_seq, mtx, ctrlLocals, dpc, upc,
                   mpc, history, stop_len>>

\* lines 207-213: unmask k|m|p, then cv.notify_one()
UserUnmask(which) ==
    /\ upc = "getline"
    /\ SetMask(which, FALSE)
    /\ cpc' = Notified(cpc)
    /\ UNCHANGED <<pending, running, global_seq, mtx, ctrlLocals, dpc, upc,
                   mpc, history, stop_len>>

\* lines 221-225: exit: running = false; cv.notify_all(); break
UserExit ==
    /\ upc = "getline"
    /\ running' = FALSE
    /\ cpc' = Notified(cpc)
    /\ upc' = "done"
    /\ stop_len' = IF running THEN Len(serviced) ELSE stop_len
    /\ UNCHANGED <<pending, masks, global_seq, mtx, ctrlLocals, dpc, mpc, history>>

\* line 195: getline fails (end of input)
UserEof ==
    /\ upc = "getline"
    /\ upc' = "done"
    /\ UNCHANGED <<pending, masks, running, global_seq, mtx, cpc, ctrlLocals,
                   dpc, mpc, history, stop_len>>

----------------------------------------------------------------------------
\* main()

\* lines 251-254: t_user.join(); running = false; cv.notify_all()
MainShutdown ==
    /\ mpc = "join_user"
    /\ upc = "done"
    /\ running' = FALSE
    /\ cpc' = Notified(cpc)
    /\ mpc' = "join_threads"
    /\ stop_len' = IF running THEN Len(serviced) ELSE stop_len
    /\ UNCHANGED <<pending, masks, global_seq, mtx, ctrlLocals, dpc, upc, history>>

\* lines 256-262: the four joins return
MainJoin ==
    /\ mpc = "join_threads"
    /\ \A d \in Device : dpc[d] = "done"
    /\ cpc = "done"
    /\ mpc' = "done"
    /\ UNCHANGED <<pending, masks, running, global_seq, mtx, cpc, ctrlLocals,
                   dpc, upc, history, stop_len>>

----------------------------------------------------------------------------
Device_thread == \E d \in Device : DevWake(d) \/ DevPush(d) \/ DevNotify(d)

Controller ==
    \/ CtrlLoop \/ CtrlLock \/ CtrlWaitPred \/ CtrlBlock \/ CtrlReacquire
    \/ CtrlCheckExit \/ CtrlScan \/ CtrlAllMasked \/ CtrlTimeout
    \/ CtrlContinue \/ CtrlExtract \/ IsrStart \/ IsrEnd

User ==
    \/ \E w \in Which : UserMask(w)
    \/ \E w \in Which : UserUnmask(w)
    \/ UserExit
    \/ UserEof

Next ==
    \/ Device_thread
    \/ Controller
    \/ CtrlSpurious
    \/ User
    \/ MainShutdown
    \/ MainJoin

Spec == Init /\ [][Next]_vars

\* The scheduler runs every thread that can take a step; a console command or
\* a spurious wake-up may never come.
Fairness ==
    /\ WF_vars(Controller)
    /\ \A d \in Device : WF_vars(DevWake(d) \/ DevPush(d) \/ DevNotify(d))
    /\ WF_vars(MainShutdown)
    /\ WF_vars(MainJoin)

LiveSpec == Init /\ [][Next]_vars /\ Fairness

----------------------------------------------------------------------------
\* A pending set left to the controller: the device threads have pushed n
\* events (seq 1..n, any devices) while the controller had not yet taken mtx.

\* Most events in the pending set a drain starts from.
MaxDrain == 3

PendingOf(f) == [k \in DOMAIN f |-> [dev |-> f[k], seq |-> k]]

\* Most events in the pending set the mask and unmask commands start from.
MaxHeld == 2

StartWith(most, m_k, m_m, m_p) ==
    /\ \E n \in 0..most : \E f \in [1..n -> Device] :
           /\ pending = PendingOf(f)
           /\ inserted = PendingOf(f)
           /\ global_seq = n
    /\ masked_keyboard \in m_k
    /\ masked_mouse \in m_m
    /\ masked_printer \in m_p
    /\ running = TRUE
    /\ mtx = "free"
    /\ cpc = "loop"
    /\ i = -1
    /\ best = NoBest
    /\ ev = NoEvent
    /\ dpc = [d \in Device |-> "sleep"]
    /\ upc = "getline"
    /\ mpc = "join_user"
    /\ serviced = <<>>
    /\ log = <<>>
    /\ stop_len = -1

\* no device masked, no insertion, no command: the controller alone
DrainInit == StartWith(MaxDrain, {FALSE}, {FALSE}, {FALSE})

DrainNext ==
    \/ CtrlLoop \/ CtrlLock \/ CtrlWaitPred \/ CtrlBlock \/ CtrlCheckExit
    \/ CtrlScan \/ CtrlExtract \/ IsrStart \/ IsrEnd

DrainSpec == DrainInit /\ [][DrainNext]_vars

\* any masks, mask and unmask commands, no insertion, no shutdown
UnmaskInit == StartWith(MaxHeld, BOOLEAN, BOOLEAN, BOOLEAN)

UnmaskNext ==
    \/ Controller
    \/ CtrlSpurious
    \/ \E w \in Which : UserMask(w)
    \/ \E w \in Which : UserUnmask(w)

UnmaskSpec == UnmaskInit /\ [][UnmaskNext]_vars /\ WF_vars(Controller)

\* the controller whose cv.wait_for never times out: it returns on a
\* notification (or spuriously) only
ControllerNoTimeout ==
    \/ CtrlLoop \/ CtrlLock \/ CtrlWaitPred \/ CtrlBlock \/ CtrlReacquire
    \/ CtrlCheckExit \/ CtrlScan \/ CtrlAllMasked
    \/ CtrlContinue \/ CtrlExtract \/ IsrStart \/ IsrEnd

NoTimeoutNext ==
    \/ ControllerNoTimeout
    \/ CtrlSpurious
    \/ \E w \in Which : UserMask(w)
    \/ \E w \in Which : UserUnmask(w)

NoTimeoutSpec ==
    UnmaskInit /\ [][NoTimeoutNext]_vars /\ WF_vars(ControllerNoTimeout)

\* insertion and service with the masks as they were set, no command, no
\* shutdown: the device threads and the controller alone
InsertInit == StartWith(0, BOOLEAN, BOOLEAN, BOOLEAN)

InsertNext ==
    \/ Device_thread
    \/ Controller
    \/ CtrlSpurious

InsertSpec ==
    /\ InsertInit
    /\ [][InsertNext]_vars
    /\ WF_vars(Controller)
    /\ \A d \in Device : WF_vars(DevWake(d) \/ DevPush(d) \/ DevNotify(d))

TypeOK ==
    /\ masked_keyboard \in BOOLEAN /\ masked_mouse \in BOOLEAN
    /\ masked_printer \in BOOLEAN /\ running \in BOOLEAN
    /\ global_seq = Len(inserted)
    /\ mtx \in {"free", "ctrl"}
    /\ (mtx = "ctrl") = (cpc \in {"wait_pred", "wait_block", "check_exit", "scan"})
    /\ \A k \in 1..Len(pending) : pending[k].dev \in Device
    /\ \A j, k \in 1..Len(pending) : j < k => pending[j].seq < pending[k].seq

----------------------------------------------------------------------------
\* Vocabulary of the properties

Range(s) == {s[k] : k \in 1..Len(s)}
Count(s, e) == Cardinality({k \in 1..Len(s) : s[k] = e})

\* this step erases an event for service
Selects == Len(serviced') = Len(serviced) + 1
\* the event this step erases
Chosen == serviced'[Len(serviced')]

\* C1: every selection takes the event of the highest device priority among
\* the pending events whose device is unmasked and, within that device, the
\* one with the smallest sequence number.
C1_SelectsHighestUnmasked ==
    [][Selects =>
        \A e \in Range(pending) :
            ~is_masked(e.dev) =>
                \/ e.dev < Chosen.dev
                \/ (e.dev = Chosen.dev /\ e.seq >= Chosen.seq)]_vars

\* C2: when the controller removes an event for service the mask of its
\* device is false; while every pending event is of a masked device, nothing
\* is removed.
C2_RemovedIsUnmasked ==
    [][/\ Selects => ~is_masked(Chosen.dev)
       /\ (pending # <<>> /\ \A e \in Range(pending) : is_masked(e.dev))
              => serviced' = serviced]_vars

\* C3: at most one event is in service: the log alternates START e, END e, so
\* no START lies between the START and the END of another event.
C3_OneInService ==
    \A k \in 1..Len(log) :
        /\ (k % 2 = 1) = (log[k].phase = "START")
        /\ log[k].phase = "END" =>
               (log[k - 1].dev = log[k].dev /\ log[k - 1].seq = log[k].seq)

\* C3: a second service has started after the first one ended
C3_Witness ==
    /\ Len(log) >= 3
    /\ log[3].phase = "START"

\* C4: the events inserted are, as a multiset, the events removed for service
\* plus the events still pending; an event that began service is not pending.
C4_Conservation ==
    /\ \A e \in Range(inserted) \cup Range(serviced) \cup Range(pending) :
           Count(inserted, e) = Count(serviced, e) + Count(pending, e)
    /\ \A k \in 1..Len(log) :
           /\ [dev |-> log[k].dev, seq |-> log[k].seq] \in Range(serviced)
           /\ [dev |-> log[k].dev, seq |-> log[k].seq] \notin Range(pending)

\* C4: after shutdown, one event serviced to its END and another still pending
C4_Witness ==
    /\ ~running
    /\ cpc = "done"
    /\ Len(log) = 2
    /\ Len(pending) = 1
    /\ Len(inserted) = 2

\* C7: an event of device D is never removed for service while an event of D
\* with a smaller sequence number is pending.
C7_FifoPerDevice ==
    [][Selects =>
        \A e \in Range(pending) :
            e.dev = Chosen.dev => e.seq >= Chosen.seq]_vars

\* C8: while a device is masked its pending events stay in the pending set,
\* and the controller does not hold back (enter the all-masked wait) while an
\* event of an unmasked device is pending.
C8_MaskSkipsOnly ==
    [][/\ \A e \in Range(pending) : is_masked(e.dev) => e \in Range(pending')
       /\ (cpc = "scan" /\ cpc' = "timed_wait")
              => \A e \in Range(pending) : is_masked(e.dev)]_vars

\* C9: once running is false no device thread inserts an event.
C9_NoInsertAfterShutdown ==
    [][~running => inserted' = inserted]_vars

\* the sequence numbers of the START records
Started == {log[k].seq : k \in {j \in 1..Len(log) : log[j].phase = "START"}}
\* the pending event with sequence number n, if any, is of an unmasked device
PendingUnmasked(n) == \E e \in Range(pending) : e.seq = n /\ ~is_masked(e.dev)
PendingMasked(n) == \E e \in Range(pending) : e.seq = n /\ is_masked(e.dev)

\* C5: a pending event whose device has been unmasked is serviced, unless its
\* device is masked again, with no further insertion and no shutdown.
C5_UnmaskedIsServiced ==
    \A n \in 1..MaxHeld :
        PendingUnmasked(n) ~> (n \in Started \/ PendingMasked(n))

\* C5: the controller found every pending event masked and waits; an unmask
\* command has since made event 1 eligible
C5_Witness ==
    /\ cpc = "timed_wait"
    /\ Len(pending) = 2
    /\ serviced = <<>>
    /\ PendingUnmasked(1)

\* the START records, in the order they were written
ServiceOrder == SelectSeq(log, LAMBDA r : r.phase = "START")

\* C6: with no device masked and no insertion, the events are serviced by
\* device priority descending and, within a device, sequence number ascending.
C6_DrainSorted ==
    \A a, b \in 1..Len(ServiceOrder) :
        a < b =>
            \/ ServiceOrder[a].dev > ServiceOrder[b].dev
            \/ /\ ServiceOrder[a].dev = ServiceOrder[b].dev
               /\ ServiceOrder[a].seq < ServiceOrder[b].seq

\* C6: Printer(seq=1), Keyboard(seq=2) pending: Keyboard, then Printer
C6_Witness ==
    /\ inserted = <<[dev |-> PRINTER, seq |-> 1], [dev |-> KEYBOARD, seq |-> 2]>>
    /\ Len(ServiceOrder) = 2
    /\ ServiceOrder[1].dev = KEYBOARD
    /\ ServiceOrder[2].dev = PRINTER
    /\ pending = <<>>

\* C10: after shutdown is requested the controller and the three device
\* threads terminate.
C10_ShutdownTerminates ==
    ~running ~> (cpc = "done" /\ \A d \in Device : dpc[d] = "done")

\* C11 as claimed: once running is false the controller selects no event.
C11_NoSelectAfterStop ==
    [][~running => serviced' = serviced]_vars

\* C11: once running is false the controller selects at most one more event:
\* the one of the pass it is in, or is woken into, when the flag is written.
C11_AtMostOneAfterStop ==
    ~running => (stop_len >= 0 /\ Len(serviced) <= stop_len + 1)

\* C11: the controller has stopped after selecting one event past the flag,
\* leaving another pending
C11_Witness ==
    /\ ~running
    /\ cpc = "done"
    /\ Len(serviced) = stop_len + 1
    /\ pending # <<>>

\* C12: every mask write is made with mtx held, so no mask changes while the
\* controller holds mtx for its selection pass (lock, scan, erase).
C12_MaskWritesUnderLock ==
    [][mtx = "ctrl" => masks' = masks]_vars

Inserts == Len(inserted') = Len(inserted) + 1
\* the event this step pushes
Pushed == inserted'[Len(inserted')]
\* the sequence numbers given out so far
SeqsGiven == {inserted[k].seq : k \in 1..Len(inserted)}

\* C14: global_seq changes only in a push, made while no other thread holds
\* mtx, and the pushed event gets the previous maximum plus one: the sequence
\* numbers are pairwise distinct and increase in insertion order.
C14_SeqUnderLock ==
    [][/\ global_seq' # global_seq => (Inserts /\ mtx = "free")
       /\ Inserts =>
              /\ \A q \in SeqsGiven : q < Pushed.seq
              /\ Pushed.seq - 1 \in SeqsGiven \cup {0}
              /\ Pushed.seq = global_seq'
              /\ inserted' = Append(inserted, Pushed)]_vars

\* C14: two device threads have pushed one event each
C14_Witness ==
    /\ Len(inserted) = 2
    /\ inserted[1].dev # inserted[2].dev
    /\ inserted[1].seq = 1
    /\ inserted[2].seq = 2

\* an event is in service: erased, its END record not yet written
InService == cpc \in {"isr_start", "isr_work"}

\* C15: while an event is in service the controller does not hold mtx: a
\* device thread at its push can take the step, and the event it pushes is in
\* the pending set while the service is still going on.
C15_ServiceWithoutLock ==
    /\ [](InService =>
            /\ mtx = "free"
            /\ \A d \in Device : dpc[d] = "push" => ENABLED DevPush(d))
    /\ [][(InService /\ Inserts) =>
            (InService' /\ ev' = ev /\ Pushed \in Range(pending'))]_vars

\* C15: event 1 is in service (START written) and event 2, pushed by the
\* keyboard thread, which has not yet notified, is pending
C15_Witness ==
    /\ cpc = "isr_work"
    /\ ev.seq = 1
    /\ dpc[KEYBOARD] = "notify"
    /\ pending = <<[dev |-> KEYBOARD, seq |-> 2]>>

\* C16: the controller has left its loop only if running is false, and with
\* pending empty and running true it is not past the wait of line 115: it
\* neither reaches line 116 nor scans.
C16_StopsOnlyOnShutdown ==
    /\ cpc = "done" => ~running
    /\ (pending = <<>> /\ running) => cpc \notin {"check_exit", "scan"}

\* C16: the controller has serviced the only event and is back at the
\* predicate of line 115, with pending empty and running still true
C16_Witness ==
    /\ cpc = "wait_pred"
    /\ running
    /\ pending = <<>>
    /\ Len(log) = 2
    /\ Len(inserted) = 1

\* the device names a command accepts
Named == {"k", "m", "p"}
\* the mask a device name stands for
MaskOf(w) ==
    IF w = "k" THEN masked_keyboard
    ELSE IF w = "m" THEN masked_mouse
    ELSE masked_printer
\* this step is the command mask w (b true) or unmask w (b false)
Command(w, b) == IF b THEN UserMask(w) ELSE UserUnmask(w)

\* C17: a mask or unmask command sets the named mask and leaves the other two
\* masks, the pending set and the sequence counter as they were; applied to the
\* state it has produced (the mask already set, no waiter left to notify) it
\* changes nothing, so applying it twice gives the state of applying it once.
C17_MaskIdempotentFrame ==
    [][\A w \in Named : \A b \in BOOLEAN :
          Command(w, b) =>
              /\ MaskOf(w)' = b
              /\ \A o \in Named \ {w} : MaskOf(o)' = MaskOf(o)
              /\ pending' = pending
              /\ global_seq' = global_seq
              /\ Notified(cpc)' = cpc'
              /\ (MaskOf(w) = b /\ Notified(cpc) = cpc) => UNCHANGED vars]_vars

\* C17: Mouse has been masked while an event was pending; the other two masks
\* are clear, the event and the counter are as the push left them
C17_Witness ==
    /\ masked_mouse
    /\ ~masked_keyboard
    /\ ~masked_printer
    /\ Len(pending) = 1
    /\ global_seq = 1
    /\ cpc = "tw_wake"

\* C18: with insertion bounded, no shutdown and the masks left alone, every
\* pending event of an unmasked device is started, under fair scheduling of
\* the device threads and the controller.
C18_InsertWakes ==
    \A n \in 1..MaxSeq : [](PendingUnmasked(n) => <>(n \in Started))

\* C18: the controller is blocked in cv.wait, entered on an empty pending set;
\* a device thread has since pushed event 1 and has not yet notified
C18_Witness ==
    /\ cpc = "waiting"
    /\ running
    /\ Len(pending) = 1
    /\ PendingUnmasked(1)
    /\ serviced = <<>>
    /\ \E d \in Device : dpc[d] = "notify"

====
